---- MODULE Spec2Model ----
(***************************************************************************)
(* Streaming chat orchestration of backend/src/agent/my_local_agent:       *)
(* the model stream adapter (_stream_model_response), the tool dispatcher  *)
(* (_execute_tools), the orchestration loop                                *)
(* (_stream_chat_with_tools_refactored) and the ConversationManager        *)
(* operations (add_user_message, add_assistant_message, add_tool_message)  *)
(* they persist through, over the messages table of DatabaseManager.       *)
(*                                                                         *)
(* One behaviour is one request: a conversation is created, user messages  *)
(* are added, the loop is started and driven by a backend that delivers    *)
(* frames, ends its stream or raises.                                      *)
(***************************************************************************)
EXTENDS Integers, Sequences, FiniteSets, TLC

\* ------------------------------------------------------------- bounds
\* model turns one request may start
MaxTurns == 2
\* non-terminal frames the backend delivers during one request
MaxFrames == 2
\* store writes that fail (sqlite3.Error) during one behaviour
MaxDbFailures == 1
\* messages appended by direct calls of the manager, outside a request
MaxDirect == 2
\* steps of the plan given to execute_plan
MaxSteps == 2

VARIABLES
    conversation_id,       \* Conversation.id of the current conversation
    messages,              \* Conversation.messages, the in-memory sequence
    rows,                  \* rows of the messages table for this conversation
    out,                   \* the lines the loop has yielded to its caller
    pc,                    \* position of the loop
    count,                 \* the loop's turn counter
    full_thinking,         \* thinking chunks accumulated in the current turn
    full_content,          \* content chunks accumulated in the current turn
    tool_calls_this_turn,  \* tool calls collected in the current turn
    toolIdx,               \* index of the next call the dispatcher handles
    frames,                \* non-terminal frames delivered so far
    dbFailures,            \* store writes that have failed so far
    exc,                   \* exception that left the last operation
    turns,                 \* log: one record per model turn started
    dispatched,            \* log: one record per tool call the dispatcher handled
    current_conversation,  \* whether the manager holds a conversation
    response,              \* what invoke returned without starting the loop
    loaded,                \* the messages load_existing built from the rows
    plan,                  \* the AgentPlan given to execute_plan
    next_steps,            \* execute_plan: the steps of the current pass
    messages_for_llm,      \* the message list given to the adapter this turn
    initial_messages,      \* log: the conversation when the loop was started
    response_stream,       \* adapter alone: the frames the backend delivered
    yielded,               \* adapter alone: the chunks the adapter yielded
    other,                 \* two requests: the state of the request not running
    tools,                 \* ToolRegistry.tools: name -> Tool
    tool_categories,       \* ToolRegistry.tool_categories: category -> names
    fn_calls,              \* log: how many times a tool's function was called
    last_call              \* log: the last call made on the registry

\* the state outside the request loop
side == <<current_conversation, response, loaded, plan, next_steps>>

\* what the loop gives to the model
registry == <<tools, tool_categories, fn_calls, last_call>>

\* ToolRegistry.__init__: no tool, no category, nothing called
NoRegistry ==
    /\ tools = << >>
    /\ tool_categories = << >>
    /\ fn_calls = 0
    /\ last_call = << >>

llm == <<messages_for_llm, initial_messages>>

\* the state of an adapter that is consumed on its own
adapter == <<response_stream, yielded>>

vars == <<conversation_id, messages, rows, out, pc, count, full_thinking,
          full_content, tool_calls_this_turn, toolIdx, frames, dbFailures,
          exc, turns, dispatched, side, llm, adapter, other, registry>>

\* ------------------------------------------------------------- values
\* Optional[T]: None, or one value
None == <<>>
Some(v) == <<v>>
\* Python truthiness of an optional string: None and "" are falsy
FalsyStr(opt) == opt = None \/ opt[1] = ""
\* Python truthiness of an optional list: None and [] are falsy
FalsyList(opt) == opt = None \/ opt[1] = <<>>

ConversationIds == {1}
UserTexts == {"", "q"}

\* available_tools_default
AvailableTools == {"get_weather", "get_weather_conditions"}

\* A tool call of a frame.  mapping = FALSE is a call whose "function" entry is
\* not a mapping, so that .get("name") on it raises AttributeError.
ToolCall(name, arguments, mapping) ==
    [name |-> name, arguments |-> arguments, mapping |-> mapping]

GetWeather == ToolCall("get_weather", "city", TRUE)
GetConditions == ToolCall("get_weather_conditions", "city", TRUE)
GetWeatherBadArgs == ToolCall("get_weather", "bad", TRUE)
UnknownTool == ToolCall("unknown_tool", "city", TRUE)
NoName == ToolCall("", "city", TRUE)
Malformed == ToolCall("", "", FALSE)

FrameToolCalls ==
    { <<GetWeather>>, <<GetWeatherBadArgs>>, <<UnknownTool>>, <<NoName>>,
      <<Malformed>>, <<GetWeatherBadArgs, GetConditions>> }

Frame(thinking, content, tool_calls, done) ==
    [message |-> [thinking |-> thinking, content |-> content,
                  tool_calls |-> tool_calls],
     done |-> done]

\* frames with done = False
Frames ==
    { Frame("", "", <<>>, FALSE), Frame("t", "", <<>>, FALSE),
      Frame("", "a", <<>>, FALSE), Frame("t", "b", <<>>, FALSE),
      Frame("t", "a", <<GetWeather>>, FALSE) }
    \cup { Frame("", "", tcs, FALSE) : tcs \in FrameToolCalls }

\* the terminal frame, done = True
DoneFrames ==
    { Frame("", "", <<>>, TRUE), Frame("z", "z", <<>>, TRUE),
      Frame("", "", <<GetConditions>>, TRUE) }

\* ------------------------------------------------------------- helpers
RECURSIVE Join(_)
\* "".join(chunks)
Join(chunks) ==
    IF chunks = <<>> THEN "" ELSE Head(chunks) \o Join(Tail(chunks))

\* mutant: a message with thinking but no content is rejected
ValidateContentOnly(m) ==
    ~(m.content = "" /\ FalsyList(m.tool_calls))

\* ChatMessage.validate
Validate(m) ==
    ~(m.content = "" /\ FalsyList(m.tool_calls) /\ FalsyStr(m.thinking))

ChatMessage(role, content, thinking, tool_calls, tool_name) ==
    [role |-> role, content |-> content, thinking |-> thinking,
     tool_calls |-> tool_calls, tool_name |-> tool_name]

\* ChatMessage.to_dict: the fields that are not None
to_dict(m) ==
    [k \in {"role", "content"}
              \cup {f \in {"thinking", "tool_calls", "tool_name"} : m[f] # None} |->
        IF k \in {"role", "content"} THEN m[k] ELSE m[k][1]]

\* json.dumps of a list, as the text stored in a column; <<>> is the text ""
JsonDumps(v) == <<"json", v>>

\* DatabaseManager.insert_message: the row written
Row(step, role, content, thinking, tool_calls, tool_name) ==
    [conversation_id |-> conversation_id, step |-> step, role |-> role,
     content |-> content, thinking |-> thinking, tool_calls |-> tool_calls,
     tool_name |-> tool_name]

\* mutant: the message is put in front of the others
add_message_in_front(msgs, m) == IF Validate(m) THEN <<m>> \o msgs ELSE msgs

\* Conversation.add_message: validate, then append
add_message(msgs, m) == IF Validate(m) THEN Append(msgs, m) ELSE msgs

\* whether one store write may fail now
DbChoices == IF dbFailures < MaxDbFailures THEN BOOLEAN ELSE {TRUE}

\* mutant: the check for an active conversation is missing
AddedUnchecked(m, row, dbOk) ==
    IF ~Validate(m)
      THEN [raises |-> TRUE, error |-> "ValueError",
            messages |-> messages, rows |-> rows]
    ELSE [raises |-> FALSE, error |-> "none",
          messages |-> add_message(messages, m),
          rows |-> IF dbOk THEN Append(rows, row) ELSE rows]

\* the outcome of an add_*_message call that appends m and writes row:
\* RuntimeError without a conversation, ValueError from validate, else the
\* message appended and, unless the write fails, its row
Added(m, row, dbOk) ==
    IF ~current_conversation
      THEN [raises |-> TRUE, error |-> "RuntimeError",
            messages |-> messages, rows |-> rows]
    ELSE IF ~Validate(m)
      THEN [raises |-> TRUE, error |-> "ValueError",
            messages |-> messages, rows |-> rows]
    ELSE [raises |-> FALSE, error |-> "none",
          messages |-> add_message(messages, m),
          rows |-> IF dbOk THEN Append(rows, row) ELSE rows]

\* ConversationManager.add_user_message
add_user_message(content, dbOk) ==
    LET m == ChatMessage("user", content, None, None, None)
        step == Len(add_message(messages, m))
    IN  Added(m, Row(step, "user", content, Some(""), <<>>, Some("")), dbOk)

\* ConversationManager.add_assistant_message
add_assistant_message(content, thinking, tool_calls, dbOk) ==
    LET m == ChatMessage("assistant", content, thinking, tool_calls, None)
        step == Len(add_message(messages, m))
    IN  Added(m, Row(step, "assistant", content, thinking,
                     IF FalsyList(tool_calls) THEN <<>>
                     ELSE JsonDumps(tool_calls[1]),
                     Some("")), dbOk)

\* mutant: the step is taken before the message is appended
add_tool_message_stale_step(content, tool_name, dbOk) ==
    LET m == ChatMessage("tool", content, None, None, Some(tool_name))
        step == Len(messages)
    IN  Added(m, Row(step, "tool", content, Some(""), <<>>, Some(tool_name)), dbOk)

\* ConversationManager.add_tool_message
add_tool_message(content, tool_name, dbOk) ==
    LET m == ChatMessage("tool", content, None, None, Some(tool_name))
        step == Len(add_message(messages, m))
    IN  Added(m, Row(step, "tool", content, Some(""), <<>>, Some(tool_name)), dbOk)

\* ------------------------------------------------------------- events
Metadata(id) == [stage |-> "metadata", conversation_id |-> id]
Thinking(text) == [stage |-> "thinking", response |-> text]
Content(text) == [stage |-> "content", response |-> text]
ToolCallChunk(tc) == [stage |-> "tool_call_chunk", tool_call |-> tc]
ToolResult(tool, args, result) ==
    [stage |-> "tool_result", tool |-> tool, args |-> args, result |-> result]
ToolError(tool, error) == [stage |-> "tool_error", tool |-> tool, error |-> error]
FinalizeAnswer == [stage |-> "finalize_answer"]
\* the three places that build an error event
AdapterError == [stage |-> "error", response |-> "Model communication error"]
DispatcherError == [stage |-> "error", response |-> "Tool execution system error"]
LoopError == [stage |-> "error", response |-> "Chat loop error"]

\* ------------------------------------------------------------- adapter
\* mutant: the text of the terminal frame is yielded too
FrameChunksYieldsDoneText(event) ==
    LET msg == event.message
    IN  (IF msg.thinking # "" THEN <<Thinking(msg.thinking)>> ELSE <<>>)
        \o (IF msg.content # "" THEN <<Content(msg.content)>> ELSE <<>>)
        \o [i \in 1..Len(msg.tool_calls) |-> ToolCallChunk(msg.tool_calls[i])]

\* _stream_model_response, body of `async for event in response_stream`:
\* the chunks yielded for one frame
FrameChunks(event) ==
    LET msg == event.message
    IN  (IF ~event.done /\ msg.thinking # ""
           THEN <<Thinking(msg.thinking)>> ELSE <<>>)
        \o (IF ~event.done /\ msg.content # ""
              THEN <<Content(msg.content)>> ELSE <<>>)
        \o [i \in 1..Len(msg.tool_calls) |-> ToolCallChunk(msg.tool_calls[i])]

\* _stream_model_response, `except Exception`: the chunk yielded before re-raising
FailureChunks == <<AdapterError>>

\* ------------------------------------------------------------- loop
\* the accumulators of one turn together with the lines yielded
TurnState(thinking, content, calls, lines) ==
    [full_thinking |-> thinking, full_content |-> content,
     tool_calls_this_turn |-> calls, out |-> lines]

\* mutant: content chunks are forwarded but not accumulated
ConsumeChunkContentNotKept(st, chunk) ==
    IF chunk.stage = "thinking"
      THEN [st EXCEPT !.full_thinking = Append(@, chunk.response),
                      !.out = Append(@, chunk)]
    ELSE IF chunk.stage = "content"
      THEN [st EXCEPT !.out = Append(@, chunk)]
    ELSE IF chunk.stage = "tool_call_chunk"
      THEN [st EXCEPT !.tool_calls_this_turn = Append(@, chunk.tool_call)]
    ELSE st

\* mutant: the adapter's error chunk is forwarded to the caller
ConsumeChunkForwardsError(st, chunk) ==
    IF chunk.stage = "thinking"
      THEN [st EXCEPT !.full_thinking = Append(@, chunk.response),
                      !.out = Append(@, chunk)]
    ELSE IF chunk.stage = "content"
      THEN [st EXCEPT !.full_content = Append(@, chunk.response),
                      !.out = Append(@, chunk)]
    ELSE IF chunk.stage = "tool_call_chunk"
      THEN [st EXCEPT !.tool_calls_this_turn = Append(@, chunk.tool_call)]
    ELSE [st EXCEPT !.out = Append(@, chunk)]

\* mutant: a tool call is answered as soon as its fragment arrives
ConsumeChunkDispatchesEarly(st, chunk) ==
    IF chunk.stage = "thinking"
      THEN [st EXCEPT !.full_thinking = Append(@, chunk.response),
                      !.out = Append(@, chunk)]
    ELSE IF chunk.stage = "content"
      THEN [st EXCEPT !.full_content = Append(@, chunk.response),
                      !.out = Append(@, chunk)]
    ELSE IF chunk.stage = "tool_call_chunk"
      THEN [st EXCEPT !.tool_calls_this_turn = Append(@, chunk.tool_call),
                      !.out = Append(@, ToolError(chunk.tool_call.name, "early"))]
    ELSE st

\* mutant: a tool-call fragment is forwarded as well as buffered
ConsumeChunkForwardsFragments(st, chunk) ==
    IF chunk.stage = "thinking"
      THEN [st EXCEPT !.full_thinking = Append(@, chunk.response),
                      !.out = Append(@, chunk)]
    ELSE IF chunk.stage = "content"
      THEN [st EXCEPT !.full_content = Append(@, chunk.response),
                      !.out = Append(@, chunk)]
    ELSE IF chunk.stage = "tool_call_chunk"
      THEN [st EXCEPT !.tool_calls_this_turn = Append(@, chunk.tool_call),
                      !.out = Append(@, chunk)]
    ELSE st

\* _stream_chat_with_tools_refactored, body of `async for chunk in streamer`
ConsumeChunk(st, chunk) ==
    IF chunk.stage = "thinking"
      THEN [st EXCEPT !.full_thinking = Append(@, chunk.response),
                      !.out = Append(@, chunk)]
    ELSE IF chunk.stage = "content"
      THEN [st EXCEPT !.full_content = Append(@, chunk.response),
                      !.out = Append(@, chunk)]
    ELSE IF chunk.stage = "tool_call_chunk"
      THEN [st EXCEPT !.tool_calls_this_turn = Append(@, chunk.tool_call)]
    ELSE st

RECURSIVE ConsumeChunks(_, _)
ConsumeChunks(st, chunks) ==
    IF chunks = <<>> THEN st
    ELSE ConsumeChunks(ConsumeChunk(st, Head(chunks)), Tail(chunks))

CurrentTurn == TurnState(full_thinking, full_content, tool_calls_this_turn, out)

\* One record of the turn log: start and mark are the numbers of lines yielded
\* when the turn began and when its stream ended, batch the tool calls it
\* collected, ended how its stream ended, message the position in
\* Conversation.messages of the assistant message appended for it (0: none).
TurnRecord(start, mark, batch, ended, message) ==
    [start |-> start, mark |-> mark, batch |-> batch, ended |-> ended,
     message |-> message]

\* ------------------------------------------------------------- tools
\* get_weather / get_weather_conditions called as function_to_call(**args):
\* any argument set but {"city": ...} raises TypeError
ToolRaises(tc) == tc.arguments # "city"

\* str(result) of the tool functions: one value for each tool
ToolResults(name) ==
    IF name = "get_weather" THEN {"temperature"} ELSE {"sunny"}

\* mutant: the ValueError of an unknown tool is raised outside the inner try
\* and ends the dispatch
DispatchCallStopsAtUnknown(tc, result, dbOk) ==
    LET r == add_tool_message(result, tc.name, dbOk)
        same == [messages |-> messages, rows |-> rows]
    IN  IF ~tc.mapping
          THEN [events |-> <<DispatcherError>>, aborted |-> TRUE, invoked |-> FALSE] @@ same
        ELSE IF tc.name = ""
          THEN [events |-> <<>>, aborted |-> FALSE, invoked |-> FALSE] @@ same
        ELSE IF tc.name \notin AvailableTools
          THEN [events |-> <<ToolError(tc.name, "not found")>>,
                aborted |-> TRUE, invoked |-> FALSE] @@ same
        ELSE IF ToolRaises(tc)
          THEN [events |-> <<ToolError(tc.name, "TypeError")>>,
                aborted |-> FALSE, invoked |-> TRUE] @@ same
        ELSE [events |-> <<ToolResult(tc.name, tc.arguments, result)>>,
              aborted |-> FALSE, invoked |-> TRUE,
              messages |-> r.messages, rows |-> r.rows]

\* mutant: a call without a name is not skipped and fails the lookup
DispatchCallNoSkip(tc, result, dbOk) ==
    LET r == add_tool_message(result, tc.name, dbOk)
        same == [messages |-> messages, rows |-> rows]
    IN  IF ~tc.mapping
          THEN [events |-> <<DispatcherError>>, aborted |-> TRUE, invoked |-> FALSE] @@ same
        ELSE IF tc.name \notin AvailableTools
          THEN [events |-> <<ToolError(tc.name, "not found")>>,
                aborted |-> FALSE, invoked |-> FALSE] @@ same
        ELSE IF ToolRaises(tc)
          THEN [events |-> <<ToolError(tc.name, "TypeError")>>,
                aborted |-> FALSE, invoked |-> TRUE] @@ same
        ELSE [events |-> <<ToolResult(tc.name, tc.arguments, result)>>,
              aborted |-> FALSE, invoked |-> TRUE,
              messages |-> r.messages, rows |-> r.rows]

\* mutant: the inner handler stores the error of a tool as a tool message
DispatchCallPersistsError(tc, result, dbOk) ==
    LET r == add_tool_message(result, tc.name, dbOk)
        e == add_tool_message("TypeError", tc.name, dbOk)
        same == [messages |-> messages, rows |-> rows]
    IN  IF ~tc.mapping
          THEN [events |-> <<DispatcherError>>, aborted |-> TRUE, invoked |-> FALSE] @@ same
        ELSE IF tc.name = ""
          THEN [events |-> <<>>, aborted |-> FALSE, invoked |-> FALSE] @@ same
        ELSE IF tc.name \notin AvailableTools
          THEN [events |-> <<ToolError(tc.name, "not found")>>,
                aborted |-> FALSE, invoked |-> FALSE] @@ same
        ELSE IF ToolRaises(tc)
          THEN [events |-> <<ToolError(tc.name, "TypeError")>>,
                aborted |-> FALSE, invoked |-> TRUE,
                messages |-> e.messages, rows |-> e.rows]
        ELSE [events |-> <<ToolResult(tc.name, tc.arguments, result)>>,
              aborted |-> FALSE, invoked |-> TRUE,
              messages |-> r.messages, rows |-> r.rows]

\* mutant: the exception of a tool is not caught by the inner handler and
\* ends the dispatch
DispatchCallToolRaiseEscapes(tc, result, dbOk) ==
    LET r == add_tool_message(result, tc.name, dbOk)
        same == [messages |-> messages, rows |-> rows]
    IN  IF ~tc.mapping
          THEN [events |-> <<DispatcherError>>, aborted |-> TRUE, invoked |-> FALSE] @@ same
        ELSE IF tc.name = ""
          THEN [events |-> <<>>, aborted |-> FALSE, invoked |-> FALSE] @@ same
        ELSE IF tc.name \notin AvailableTools
          THEN [events |-> <<ToolError(tc.name, "not found")>>,
                aborted |-> FALSE, invoked |-> FALSE] @@ same
        ELSE IF ToolRaises(tc)
          THEN [events |-> <<DispatcherError>>, aborted |-> TRUE,
                invoked |-> TRUE] @@ same
        ELSE [events |-> <<ToolResult(tc.name, tc.arguments, result)>>,
              aborted |-> FALSE, invoked |-> TRUE,
              messages |-> r.messages, rows |-> r.rows]

\* mutant: the result is yielded without the tool message being added
DispatchCallYieldsUnstored(tc, result, dbOk) ==
    LET same == [messages |-> messages, rows |-> rows]
    IN  IF ~tc.mapping
          THEN [events |-> <<DispatcherError>>, aborted |-> TRUE, invoked |-> FALSE] @@ same
        ELSE IF tc.name = ""
          THEN [events |-> <<>>, aborted |-> FALSE, invoked |-> FALSE] @@ same
        ELSE IF tc.name \notin AvailableTools
          THEN [events |-> <<ToolError(tc.name, "not found")>>,
                aborted |-> FALSE, invoked |-> FALSE] @@ same
        ELSE IF ToolRaises(tc)
          THEN [events |-> <<ToolError(tc.name, "TypeError")>>,
                aborted |-> FALSE, invoked |-> TRUE] @@ same
        ELSE [events |-> <<ToolResult(tc.name, tc.arguments, result)>>,
              aborted |-> FALSE, invoked |-> TRUE] @@ same

\* _execute_tools, body of `for tool_call in tool_calls` for one call:
\* the events yielded, the conversation after it, whether the lookup of the
\* name raised outside the inner try (which ends the dispatch), and whether
\* function_to_call was called
DispatchCall(tc, result, dbOk) ==
    LET r == add_tool_message(result, tc.name, dbOk)
        same == [messages |-> messages, rows |-> rows]
    IN  IF ~tc.mapping
          THEN [events |-> <<DispatcherError>>, aborted |-> TRUE, invoked |-> FALSE] @@ same
        ELSE IF tc.name = ""
          THEN [events |-> <<>>, aborted |-> FALSE, invoked |-> FALSE] @@ same
        ELSE IF tc.name \notin AvailableTools
          THEN [events |-> <<ToolError(tc.name, "not found")>>,
                aborted |-> FALSE, invoked |-> FALSE] @@ same
        ELSE IF ToolRaises(tc)
          THEN [events |-> <<ToolError(tc.name, "TypeError")>>,
                aborted |-> FALSE, invoked |-> TRUE] @@ same
        ELSE IF r.raises
          THEN [events |-> <<ToolError(tc.name, "ValueError")>>,
                aborted |-> FALSE, invoked |-> TRUE] @@ same
        ELSE [events |-> <<ToolResult(tc.name, tc.arguments, result)>>,
              aborted |-> FALSE, invoked |-> TRUE,
              messages |-> r.messages, rows |-> r.rows]

\* ------------------------------------------------------------- actions
Init ==
    /\ conversation_id \in ConversationIds
    /\ messages = <<>>
    /\ rows = <<>>
    /\ out = <<>>
    /\ pc = "idle"
    /\ count = 0
    /\ full_thinking = <<>>
    /\ full_content = <<>>
    /\ tool_calls_this_turn = <<>>
    /\ toolIdx = 1
    /\ frames = 0
    /\ dbFailures = 0
    /\ exc = "none"
    /\ turns = <<>>
    /\ dispatched = <<>>
    /\ current_conversation = TRUE
    /\ response = None
    /\ loaded = None
    /\ plan = None
    /\ next_steps = <<>>
    /\ messages_for_llm = <<>>
    /\ initial_messages = <<>>
    /\ response_stream = <<>>
    /\ yielded = <<>>
    /\ other = None
    /\ NoRegistry

\* a store write happened and failed
WriteFailed(before, after, dbOk) ==
    IF Len(after) > Len(before) /\ ~dbOk THEN 1 ELSE 0

\* where the manager is called directly: on the new conversation of a request
\* before the loop starts, or outside any request, as long as the bound allows
\* another message or the call has no conversation to append to
DirectCall ==
    \/ pc = "idle" /\ messages = <<>>
    \/ pc = "direct" /\ (Len(messages) < MaxDirect \/ ~current_conversation)

\* the effect of a direct add_*_message call with outcome r
Direct(r, dbOk) ==
    /\ messages' = r.messages
    /\ rows' = r.rows
    /\ exc' = r.error
    /\ dbFailures' = dbFailures + WriteFailed(messages, r.messages, dbOk)

\* the caller adds a user message: that of a request to come, or one of a
\* conversation that is used directly
AddUserMessage ==
    /\ DirectCall
    /\ \E content \in UserTexts, dbOk \in DbChoices :
         Direct(add_user_message(content, dbOk), dbOk)
    /\ pc' \in {pc, "direct"}
    /\ UNCHANGED <<registry, other, llm, adapter, side, dispatched, conversation_id, out, count, full_thinking,
                   full_content, tool_calls_this_turn, toolIdx, frames, turns>>

\* add_assistant_message called directly: (content, thinking, tool_calls)
AssistantInputs ==
    { <<"", None, None>>, <<"c", None, Some(<<GetWeather>>)>>,
      <<"", Some("t"), Some(<<>>)>> }

\* a caller other than the loop adds an assistant message
AddAssistantMessage ==
    /\ DirectCall
    /\ \E in \in AssistantInputs, dbOk \in DbChoices :
         Direct(add_assistant_message(in[1], in[2], in[3], dbOk), dbOk)
    /\ pc' = "direct"
    /\ UNCHANGED <<registry, other, llm, adapter, side, dispatched, conversation_id, out, count, full_thinking,
                   full_content, tool_calls_this_turn, toolIdx, frames, turns>>

\* a caller other than the dispatcher adds a tool message
AddToolMessage ==
    /\ DirectCall
    /\ \E dbOk \in DbChoices :
         Direct(add_tool_message("sunny", "get_weather_conditions", dbOk), dbOk)
    /\ pc' = "direct"
    /\ UNCHANGED <<registry, other, llm, adapter, side, dispatched, conversation_id, out, count, full_thinking,
                   full_content, tool_calls_this_turn, toolIdx, frames, turns>>

\* ConversationManager.close_conversation
CloseConversation ==
    /\ pc \in {"idle", "direct"}
    /\ current_conversation' = FALSE
    /\ pc' = "direct"
    /\ UNCHANGED <<registry, other, llm, adapter, conversation_id, messages, rows, out, count, full_thinking,
                   full_content, tool_calls_this_turn, toolIdx, frames,
                   dbFailures, exc, turns, dispatched, response, loaded, plan,
                   next_steps>>

\* json.loads of a column text written by JsonDumps
JsonLoads(text) == text[2]

\* mutant: the tool_calls column is not decoded
LoadMessageDropsToolCalls(row) ==
    ChatMessage(row.role, row.content, row.thinking, None, row.tool_name)

\* load_existing, body of `for msg_data in messages_data`
LoadMessage(row) ==
    ChatMessage(row.role, row.content, row.thinking,
                IF row.tool_calls = <<>> THEN None
                ELSE Some(JsonLoads(row.tool_calls)),
                row.tool_name)

RECURSIVE OrderByStep(_)
\* DatabaseManager.get_messages: ORDER BY step ASC
OrderByStep(rws) ==
    IF rws = <<>> THEN <<>>
    ELSE LET first == CHOOSE k \in DOMAIN rws :
                          /\ \A m \in DOMAIN rws : rws[k].step <= rws[m].step
                          /\ \A m \in 1..(k - 1) : rws[k].step < rws[m].step
         IN  <<rws[first]>>
               \o OrderByStep(SubSeq(rws, 1, first - 1)
                                \o SubSeq(rws, first + 1, Len(rws)))

\* ConversationManager.load_existing: the messages of the conversation built
\* from the rows
load_existing(rws) ==
    [i \in DOMAIN rws |-> LoadMessage(OrderByStep(rws)[i])]

\* a caller that uses the manager directly loads the conversation (the
\* endpoint never does): the messages built from the rows, kept with the
\* steps of those rows and the messages that had been appended
LoadExisting ==
    /\ pc = "direct"
    /\ loaded = None
    /\ loaded' = Some([messages |-> load_existing(rows),
                       steps |-> [i \in DOMAIN rows |-> OrderByStep(rows)[i].step],
                       appended |-> messages])
    /\ UNCHANGED <<registry, other, llm, adapter, conversation_id, messages, rows, out, pc, count,
                   full_thinking, full_content, tool_calls_this_turn, toolIdx,
                   frames, dbFailures, exc, turns, dispatched,
                   current_conversation, response, plan, next_steps>>

\* what the endpoint answers: a StreamingResponse over the given lines, or
\* the answer to an exception that left the handler
StreamingResponse(lines) == [status_code |-> 200, detail |-> "", body |-> lines]
InternalServerError(error) == [status_code |-> 500, detail |-> error, body |-> <<>>]
QueryError == [stage |-> "error", response |-> "Query contains no messages."]

\* invoke on a conversation without messages.  route.py builds the manager
\* as ConversationManager(db_manager, conversation); with the one-argument
\* constructor of conversation.py that call raises TypeError, otherwise the
\* handler answers with a one-line stream.
InvokeNoMessages ==
    /\ pc = "idle"
    /\ messages = <<>>
    /\ \E constructed \in BOOLEAN :
         response' = IF constructed
                       THEN Some(StreamingResponse(<<QueryError>>))
                       ELSE Some(InternalServerError("TypeError"))
    /\ pc' = "rejected"
    /\ UNCHANGED <<registry, other, llm, adapter, conversation_id, messages, rows, out, count, full_thinking,
                   full_content, tool_calls_this_turn, toolIdx, frames,
                   dbFailures, exc, turns, dispatched, current_conversation,
                   loaded, plan, next_steps>>

\* _stream_chat_with_tools_refactored up to its first yield
StartRequest ==
    /\ pc = "idle"
    /\ messages # <<>>
    /\ out' = Append(out, Metadata(conversation_id))
    /\ initial_messages' = messages
    /\ pc' = "turn"
    /\ exc' = "none"
    /\ UNCHANGED <<registry, other, adapter, messages_for_llm, side, dispatched, conversation_id, messages, rows, count, full_thinking,
                   full_content, tool_calls_this_turn, toolIdx, frames,
                   dbFailures, turns>>

\* mutant: the metadata line is yielded inside the loop, once per turn
BeginTurnYieldsMetadata ==
    /\ pc = "turn"
    /\ count < MaxTurns
    /\ count' = count + 1
    /\ full_thinking' = <<>>
    /\ full_content' = <<>>
    /\ tool_calls_this_turn' = <<>>
    /\ messages_for_llm' = [i \in DOMAIN messages |-> to_dict(messages[i])]
    /\ out' = IF count = 0 THEN out ELSE Append(out, Metadata(conversation_id))
    /\ turns' = Append(turns, TurnRecord(Len(out'), Len(out'), <<>>, "open", 0))
    /\ pc' = "streaming"
    /\ UNCHANGED <<registry, other, adapter, initial_messages, side, dispatched, conversation_id, messages, rows, toolIdx, frames,
                   dbFailures, exc>>

\* mutant: the message list is built once, before the loop
BeginTurnStaleMessages ==
    /\ pc = "turn"
    /\ count < MaxTurns
    /\ count' = count + 1
    /\ full_thinking' = <<>>
    /\ full_content' = <<>>
    /\ tool_calls_this_turn' = <<>>
    /\ messages_for_llm' = IF count = 0
                             THEN [i \in DOMAIN messages |-> to_dict(messages[i])]
                           ELSE messages_for_llm
    /\ turns' = Append(turns, TurnRecord(Len(out), Len(out), <<>>, "open", 0))
    /\ pc' = "streaming"
    /\ UNCHANGED <<registry, other, adapter, initial_messages, side, dispatched, conversation_id, messages, rows, out, toolIdx, frames,
                   dbFailures, exc>>

\* top of `while True`: a new turn, a new adapter over the conversation
BeginTurn ==
    /\ pc = "turn"
    /\ count < MaxTurns
    /\ count' = count + 1
    /\ full_thinking' = <<>>
    /\ full_content' = <<>>
    /\ tool_calls_this_turn' = <<>>
    /\ messages_for_llm' = [i \in DOMAIN messages |-> to_dict(messages[i])]
    /\ turns' = Append(turns, TurnRecord(Len(out), Len(out), <<>>, "open", 0))
    /\ pc' = "streaming"
    /\ UNCHANGED <<registry, other, adapter, initial_messages, side, dispatched, conversation_id, messages, rows, out, toolIdx, frames,
                   dbFailures, exc>>

\* the backend delivers a frame with done = False
StreamFrame ==
    /\ pc = "streaming"
    /\ frames < MaxFrames
    /\ \E event \in Frames :
         LET st == ConsumeChunks(CurrentTurn, FrameChunks(event))
         IN  /\ full_thinking' = st.full_thinking
             /\ full_content' = st.full_content
             /\ tool_calls_this_turn' = st.tool_calls_this_turn
             /\ out' = st.out
    /\ frames' = frames + 1
    /\ UNCHANGED <<registry, other, llm, adapter, side, dispatched, conversation_id, messages, rows, pc, count, toolIdx,
                   dbFailures, exc, turns>>

\* the log with its last record closed
CloseTurn(mark, batch, ended, message) ==
    [turns EXCEPT ![Len(turns)] = TurnRecord(@.start, mark, batch, ended, message)]

\* mutant: a failure to append the assistant message does not keep the loop
\* from dispatching the batch
LoopOutcomeDispatchesUnpersisted(st, raises) ==
    IF st.tool_calls_this_turn # <<>>
      THEN [out |-> st.out, pc |-> "dispatching", exc |-> "none"]
    ELSE IF raises
      THEN [out |-> Append(st.out, LoopError), pc |-> "errored",
            exc |-> "ValueError"]
    ELSE [out |-> Append(st.out, FinalizeAnswer), pc |-> "finalized",
          exc |-> "none"]

\* mutant: finalize_answer is yielded without the break
LoopOutcomeNoBreak(st, raises) ==
    IF raises
      THEN [out |-> Append(st.out, LoopError), pc |-> "errored",
            exc |-> "ValueError"]
    ELSE IF st.tool_calls_this_turn = <<>>
      THEN [out |-> Append(st.out, FinalizeAnswer), pc |-> "turn",
            exc |-> "none"]
    ELSE [out |-> st.out, pc |-> "dispatching", exc |-> "none"]

\* mutant: finalize_answer is yielded before the assistant message is added,
\* whether or not adding it raises afterwards
LoopOutcomeFinalizesFirst(st, raises) ==
    IF st.tool_calls_this_turn = <<>>
      THEN [out |-> Append(st.out, FinalizeAnswer), pc |-> "finalized",
            exc |-> IF raises THEN "ValueError" ELSE "none"]
    ELSE IF raises
      THEN [out |-> Append(st.out, LoopError), pc |-> "errored",
            exc |-> "ValueError"]
    ELSE [out |-> st.out, pc |-> "dispatching", exc |-> "none"]

\* _stream_chat_with_tools_refactored after add_assistant_message: the outer
\* handler when it raised, else finalize_answer and break when no tool call
\* was collected, else on to _execute_tools
LoopOutcome(st, raises) ==
    IF raises
      THEN [out |-> Append(st.out, LoopError), pc |-> "errored",
            exc |-> "ValueError"]
    ELSE IF st.tool_calls_this_turn = <<>>
      THEN [out |-> Append(st.out, FinalizeAnswer), pc |-> "finalized",
            exc |-> "none"]
    ELSE [out |-> st.out, pc |-> "dispatching", exc |-> "none"]

\* the backend delivers its terminal frame and the stream ends: the loop
\* persists the assistant message, then finalizes or goes on to dispatch
StreamDone ==
    /\ pc = "streaming"
    /\ \E event \in DoneFrames, dbOk \in DbChoices :
         LET st == ConsumeChunks(CurrentTurn, FrameChunks(event))
             r == add_assistant_message(Join(st.full_content),
                                        Some(Join(st.full_thinking)), None, dbOk)
             o == LoopOutcome(st, r.raises)
         IN  /\ full_thinking' = st.full_thinking
             /\ full_content' = st.full_content
             /\ tool_calls_this_turn' = st.tool_calls_this_turn
             /\ turns' = CloseTurn(Len(st.out), st.tool_calls_this_turn, "normal",
                                   IF r.raises THEN 0 ELSE Len(r.messages))
             /\ messages' = r.messages
             /\ rows' = r.rows
             /\ dbFailures' = dbFailures + WriteFailed(messages, r.messages, dbOk)
             /\ out' = o.out
             /\ pc' = o.pc
             /\ exc' = o.exc
    /\ toolIdx' = 1
    /\ UNCHANGED <<registry, other, llm, adapter, side, dispatched, conversation_id, count, frames>>

\* mutant: the handler stores the text streamed so far before it re-raises
StreamFailPersistsPartial ==
    /\ pc = "streaming"
    /\ LET st == ConsumeChunks(CurrentTurn, FailureChunks)
           r == add_assistant_message(Join(st.full_content),
                                      Some(Join(st.full_thinking)), None, TRUE)
       IN  /\ full_thinking' = st.full_thinking
           /\ full_content' = st.full_content
           /\ tool_calls_this_turn' = st.tool_calls_this_turn
           /\ out' = Append(st.out, LoopError)
           /\ turns' = CloseTurn(Len(st.out), st.tool_calls_this_turn, "failed", 0)
           /\ messages' = r.messages
           /\ rows' = r.rows
    /\ pc' = "errored"
    /\ exc' = "TransportError"
    /\ UNCHANGED <<registry, other, llm, adapter, side, dispatched, conversation_id, count, toolIdx,
                   frames, dbFailures>>

\* the backend call or the iteration over its frames raises
StreamFail ==
    /\ pc = "streaming"
    /\ LET st == ConsumeChunks(CurrentTurn, FailureChunks)
       IN  /\ full_thinking' = st.full_thinking
           /\ full_content' = st.full_content
           /\ tool_calls_this_turn' = st.tool_calls_this_turn
           /\ out' = Append(st.out, LoopError)
           /\ turns' = CloseTurn(Len(st.out), st.tool_calls_this_turn, "failed", 0)
    /\ pc' = "errored"
    /\ exc' = "TransportError"
    /\ UNCHANGED <<registry, other, llm, adapter, side, dispatched, conversation_id, messages, rows, count, toolIdx, frames,
                   dbFailures>>

\* mutant: the handlers catch what the disconnect raises, the loop takes the
\* stream as ended and goes on
DisconnectSwallowed ==
    /\ pc = "streaming"
    /\ \E dbOk \in DbChoices :
         LET r == add_assistant_message(Join(full_content) \o "x",
                                        Some(Join(full_thinking)), None, dbOk)
             o == LoopOutcome(CurrentTurn, r.raises)
         IN  /\ turns' = CloseTurn(Len(out), tool_calls_this_turn, "closed", 0)
             /\ messages' = r.messages
             /\ rows' = r.rows
             /\ dbFailures' = dbFailures + WriteFailed(messages, r.messages, dbOk)
             /\ pc' = IF o.pc = "dispatching" THEN "dispatching" ELSE "closed"
    /\ exc' = "none"
    /\ toolIdx' = 1
    /\ UNCHANGED <<registry, other, llm, adapter, side, dispatched, conversation_id, out, count,
                   full_thinking, full_content, tool_calls_this_turn, frames>>

\* the caller stops consuming while the stream of a turn is open: the
\* generator is closed or its task cancelled where it is suspended (at a yield
\* of a line, or waiting for a frame).  GeneratorExit and CancelledError are
\* not Exceptions, so neither the adapter's handler nor the two handlers of
\* the loop catch them: both generators end there and the backend stream is
\* released.
Disconnect ==
    /\ pc = "streaming"
    /\ turns' = CloseTurn(Len(out), tool_calls_this_turn, "closed", 0)
    /\ pc' = "closed"
    /\ exc' \in {"GeneratorExit", "CancelledError"}
    /\ UNCHANGED <<registry, other, llm, adapter, side, dispatched, conversation_id, messages, rows,
                   out, count, full_thinking, full_content, tool_calls_this_turn,
                   toolIdx, frames, dbFailures>>

\* One record of the dispatch log: the turn and the index of the call in its
\* batch, the call, the numbers of messages and of lines before the call was
\* handled, the lines it yielded, the messages it appended, the number of
\* rows it wrote, and whether the tool function was called.
CallRecord(turn, index, call, history, lines, events, appended, written, invoked) ==
    [turn |-> turn, index |-> index, call |-> call, history |-> history,
     lines |-> lines, events |-> events, appended |-> appended,
     written |-> written, invoked |-> invoked]

\* _execute_tools handles the next call of the batch
ExecuteTool ==
    /\ pc = "dispatching"
    /\ toolIdx <= Len(tool_calls_this_turn)
    /\ LET tc == tool_calls_this_turn[toolIdx]
       IN  \E result \in ToolResults(tc.name), dbOk \in DbChoices :
             LET d == DispatchCall(tc, result, dbOk)
             IN  /\ out' = out \o d.events
                 /\ messages' = d.messages
                 /\ rows' = d.rows
                 /\ dbFailures' = dbFailures + WriteFailed(messages, d.messages, dbOk)
                 /\ pc' = IF d.aborted \/ toolIdx = Len(tool_calls_this_turn)
                            THEN "turn" ELSE "dispatching"
                 /\ dispatched' =
                        Append(dispatched,
                               CallRecord(count, toolIdx, tc, Len(messages),
                                          Len(out), d.events,
                                          SubSeq(d.messages, Len(messages) + 1,
                                                 Len(d.messages)),
                                          Len(d.rows) - Len(rows), d.invoked))
    /\ toolIdx' = toolIdx + 1
    /\ UNCHANGED <<registry, other, llm, adapter, side, conversation_id, count, full_thinking, full_content,
                   tool_calls_this_turn, frames, exc, turns>>

Next ==
    \/ AddUserMessage
    \/ AddAssistantMessage
    \/ AddToolMessage
    \/ CloseConversation
    \/ LoadExisting
    \/ InvokeNoMessages
    \/ StartRequest
    \/ BeginTurn
    \/ StreamFrame
    \/ StreamDone
    \/ StreamFail
    \/ Disconnect
    \/ ExecuteTool

Spec == Init /\ [][Next]_vars

\* ------------------------------------------------------------- plans
\* PlanStep.max_retries
max_retries == 3

\* PlanStep; the id of the i-th step of a plan is i
PlanStep(id, status, dependencies, priority, retry_count) ==
    [id |-> id, status |-> status, dependencies |-> dependencies,
     priority |-> priority, retry_count |-> retry_count]

\* AgentPlan
AgentPlan(status, steps, max_parallel_steps, auto_retry_failed_steps) ==
    [status |-> status, steps |-> steps,
     max_parallel_steps |-> max_parallel_steps,
     auto_retry_failed_steps |-> auto_retry_failed_steps]

\* the steps create_plan may add at position i: pending, failed with or
\* without retries left, or skipped; depending on nothing, on the step before
\* (for the first step the id 0, which no step has) or on the step after (for
\* the last step an id that no step has)
StepChoices(i) ==
    { PlanStep(i, st[1], deps, priority, st[2]) :
        st \in { <<"pending", 0>>, <<"failed", 0>>, <<"failed", max_retries>>,
                 <<"skipped", 0>> },
        deps \in { {}, {i - 1}, {i + 1} },
        priority \in {0, 1} }

\* the plans before their steps are added
Plans ==
    { AgentPlan("pending", <<>>, mps, auto) :
        mps \in {-1, 0, 1, 2}, auto \in BOOLEAN }

\* mutant: the dependencies of a step are not looked at
can_execute_anyway(step, completed_steps) == TRUE

\* PlanStep.can_execute
can_execute(step, completed_steps) == step.dependencies \subseteq completed_steps

\* AgentPlan.get_executable_steps: the positions of the steps, in plan order
get_executable_steps(p) ==
    LET completed_step_ids ==
            { p.steps[i].id : i \in { j \in DOMAIN p.steps :
                                        p.steps[j].status = "completed" } }
    IN  SelectSeq([i \in DOMAIN p.steps |-> i],
                  LAMBDA i : /\ p.steps[i].status = "pending"
                             /\ can_execute(p.steps[i], completed_step_ids))

RECURSIVE SortByPriority(_, _)
\* list.sort(key=priority, reverse=True): stable, higher priority first
SortByPriority(p, ixs) ==
    IF ixs = <<>> THEN <<>>
    ELSE LET top == CHOOSE k \in DOMAIN ixs :
                        /\ \A m \in DOMAIN ixs :
                               p.steps[ixs[m]].priority <= p.steps[ixs[k]].priority
                        /\ \A m \in 1..(k - 1) :
                               p.steps[ixs[m]].priority < p.steps[ixs[k]].priority
         IN  <<ixs[top]>>
               \o SortByPriority(p, SubSeq(ixs, 1, top - 1)
                                      \o SubSeq(ixs, top + 1, Len(ixs)))

\* AgentPlan.get_next_steps: executable_steps[:limit] as Python slices, a
\* negative limit counting from the end of the list
get_next_steps(p) ==
    LET executable_steps == SortByPriority(p, get_executable_steps(p))
        limit == p.max_parallel_steps
        stop == IF limit < 0 THEN Len(executable_steps) + limit ELSE limit
    IN  SubSeq(executable_steps, 1,
               IF stop < 0 THEN 0
               ELSE IF stop < Len(executable_steps) THEN stop
               ELSE Len(executable_steps))

\* PlanStep.should_retry
should_retry(step) == step.status = "failed" /\ step.retry_count < max_retries

\* AgentPlan.get_retry_candidates: the positions of the failed steps to retry
get_retry_candidates(p) ==
    { i \in DOMAIN p.steps : should_retry(p.steps[i]) }

\* AgentPlan.is_complete
is_complete(p) ==
    \A i \in DOMAIN p.steps : p.steps[i].status \in {"completed", "skipped"}

\* AgentPlan.has_failed_steps
has_failed_steps(p) == \E i \in DOMAIN p.steps : p.steps[i].status = "failed"

\* mutant: the step to retry stays failed
reset_for_retry_stays_failed(step) == step

\* PlanStep.reset_for_retry
reset_for_retry(step) == [step EXCEPT !.status = "pending"]

\* PlanStep.start_execution, then PlanStep.complete_execution
step_complete_execution(step) == [step EXCEPT !.status = "completed"]

\* the manager has no current plan, or a plan that create_plan is filling
PlanInit ==
    /\ conversation_id \in ConversationIds
    /\ messages = <<>>
    /\ rows = <<>>
    /\ out = <<>>
    /\ pc = "plan"
    /\ count = 0
    /\ full_thinking = <<>>
    /\ full_content = <<>>
    /\ tool_calls_this_turn = <<>>
    /\ toolIdx = 1
    /\ frames = 0
    /\ dbFailures = 0
    /\ exc = "none"
    /\ turns = <<>>
    /\ dispatched = <<>>
    /\ current_conversation = TRUE
    /\ response = None
    /\ loaded = None
    /\ plan \in {None} \cup { Some(p) : p \in Plans }
    /\ next_steps = <<>>
    /\ messages_for_llm = <<>>
    /\ initial_messages = <<>>
    /\ response_stream = <<>>
    /\ yielded = <<>>
    /\ other = None
    /\ NoRegistry

\* what execute_plan leaves alone
planFrame == <<registry, other, llm, adapter, conversation_id, messages, rows, out, count, full_thinking,
               full_content, tool_calls_this_turn, toolIdx, frames, dbFailures,
               turns, dispatched, current_conversation, response, loaded>>

\* create_plan, body of `for step_data in steps`: plan.add_step(step)
PlanAddStep ==
    /\ pc = "plan"
    /\ plan # None
    /\ Len(plan[1].steps) < MaxSteps
    /\ \E step \in StepChoices(Len(plan[1].steps) + 1) :
         plan' = Some([plan[1] EXCEPT !.steps = Append(@, step)])
    /\ UNCHANGED <<planFrame, exc, pc, next_steps>>

\* execute_plan without a plan: ValueError
ExecutePlanNoPlan ==
    /\ pc = "plan"
    /\ plan = None
    /\ exc' = "ValueError"
    /\ pc' = "plan_raised"
    /\ UNCHANGED <<planFrame, plan, next_steps>>

\* execute_plan: plan.start_execution()
PlanStartExecution ==
    /\ pc = "plan"
    /\ plan # None
    /\ plan' = Some([plan[1] EXCEPT !.status = "in_progress"])
    /\ pc' = "plan_loop"
    /\ UNCHANGED <<planFrame, exc, next_steps>>

\* execute_plan, top of `while True`: the next steps, when there are some
PlanNextSteps ==
    /\ pc = "plan_loop"
    /\ get_next_steps(plan[1]) # <<>>
    /\ next_steps' = get_next_steps(plan[1])
    /\ pc' = "plan_pass"
    /\ UNCHANGED <<planFrame, exc, plan>>

\* execute_plan, no next step: the failed steps that may be retried are reset
PlanRetry ==
    /\ pc = "plan_loop"
    /\ get_next_steps(plan[1]) = <<>>
    /\ get_retry_candidates(plan[1]) # {}
    /\ plan[1].auto_retry_failed_steps
    /\ plan' = Some([plan[1] EXCEPT !.steps =
                        [i \in DOMAIN @ |->
                            IF i \in get_retry_candidates(plan[1])
                              THEN reset_for_retry(@[i]) ELSE @[i]]])
    /\ UNCHANGED <<planFrame, exc, pc, next_steps>>

\* mutant: a plan that is not complete is failed
PlanOutcomeElseFailed(p) ==
    IF is_complete(p) THEN [p EXCEPT !.status = "completed"]
    ELSE [p EXCEPT !.status = "failed"]

\* execute_plan after the loop: complete_execution, fail_execution or neither
PlanOutcome(p) ==
    IF is_complete(p) THEN [p EXCEPT !.status = "completed"]
    ELSE IF has_failed_steps(p) THEN [p EXCEPT !.status = "failed"]
    ELSE p

\* execute_plan, no next step and nothing to retry: break, set the status of
\* the plan and return
PlanReturn ==
    /\ pc = "plan_loop"
    /\ get_next_steps(plan[1]) = <<>>
    /\ ~(get_retry_candidates(plan[1]) # {} /\ plan[1].auto_retry_failed_steps)
    /\ plan' = Some(PlanOutcome(plan[1]))
    /\ pc' = "plan_returned"
    /\ UNCHANGED <<planFrame, exc, next_steps>>

\* execute_plan, body of `for step in next_steps`
PlanExecuteStep ==
    /\ pc = "plan_pass"
    /\ plan' = Some([plan[1] EXCEPT !.steps[Head(next_steps)] =
                        step_complete_execution(@)])
    /\ next_steps' = Tail(next_steps)
    /\ pc' = IF Tail(next_steps) = <<>> THEN "plan_loop" ELSE "plan_pass"
    /\ UNCHANGED <<planFrame, exc>>

PlanNext ==
    \/ PlanAddStep
    \/ ExecutePlanNoPlan
    \/ PlanStartExecution
    \/ PlanNextSteps
    \/ PlanRetry
    \/ PlanReturn
    \/ PlanExecuteStep

PlanSpec == PlanInit /\ [][PlanNext]_vars

\* execute_plan is one synchronous call: once called it takes its next step
PlanFairSpec == PlanSpec /\ WF_vars(PlanNext)

\* ------------------------------------------------------------- the adapter alone
\* _stream_model_response consumed directly, as a caller of the generator
\* sees it: before its first frame
AdapterInit ==
    /\ conversation_id \in ConversationIds
    /\ messages = <<>>
    /\ rows = <<>>
    /\ out = <<>>
    /\ pc = "adapter"
    /\ count = 0
    /\ full_thinking = <<>>
    /\ full_content = <<>>
    /\ tool_calls_this_turn = <<>>
    /\ toolIdx = 1
    /\ frames = 0
    /\ dbFailures = 0
    /\ exc = "none"
    /\ turns = <<>>
    /\ dispatched = <<>>
    /\ current_conversation = TRUE
    /\ response = None
    /\ loaded = None
    /\ plan = None
    /\ next_steps = <<>>
    /\ messages_for_llm = <<>>
    /\ initial_messages = <<>>
    /\ response_stream = <<>>
    /\ yielded = <<>>
    /\ other = None
    /\ NoRegistry

\* what the adapter leaves alone
adapterFrame == <<registry, other, conversation_id, messages, rows, out, count, full_thinking,
                  full_content, tool_calls_this_turn, toolIdx, frames,
                  dbFailures, turns, dispatched, side, llm>>

\* the backend delivers a frame with done = False
AdapterFrame ==
    /\ pc = "adapter"
    /\ Len(response_stream) < MaxFrames
    /\ \E event \in Frames :
         /\ response_stream' = Append(response_stream, event)
         /\ yielded' = yielded \o FrameChunks(event)
    /\ UNCHANGED <<adapterFrame, pc, exc>>

\* the backend delivers its terminal frame and the generator returns
AdapterDone ==
    /\ pc = "adapter"
    /\ \E event \in DoneFrames :
         /\ response_stream' = Append(response_stream, event)
         /\ yielded' = yielded \o FrameChunks(event)
    /\ pc' = "adapter_done"
    /\ UNCHANGED <<adapterFrame, exc>>

\* mutant: the handler yields the error event and returns
AdapterFailSwallowed ==
    /\ pc = "adapter"
    /\ yielded' = yielded \o FailureChunks
    /\ pc' = "adapter_done"
    /\ UNCHANGED <<adapterFrame, response_stream, exc>>

\* ollama_client.chat or the iteration over its frames raises: `except
\* Exception` yields the error event and re-raises
AdapterFail ==
    /\ pc = "adapter"
    /\ yielded' = yielded \o FailureChunks
    /\ exc' = "TransportError"
    /\ pc' = "adapter_failed"
    /\ UNCHANGED <<adapterFrame, response_stream>>

AdapterNext ==
    \/ AdapterFrame
    \/ AdapterDone
    \/ AdapterFail

AdapterSpec == AdapterInit /\ [][AdapterNext]_vars

\* ------------------------------------------------------------- two requests
\* what a request holds on its own: its copy of the conversation, the locals
\* of its loop and its logs
Local ==
    [messages |-> messages, out |-> out, pc |-> pc, count |-> count,
     full_thinking |-> full_thinking, full_content |-> full_content,
     tool_calls_this_turn |-> tool_calls_this_turn, toolIdx |-> toolIdx,
     exc |-> exc, turns |-> turns, dispatched |-> dispatched,
     messages_for_llm |-> messages_for_llm,
     initial_messages |-> initial_messages]

\* the conversation both requests are about: one user message and its row
SharedConversation ==
    [messages |-> <<ChatMessage("user", "q", None, None, None)>>,
     rows |-> <<Row(1, "user", "q", Some(""), <<>>, Some(""))>>]

\* invoke was called twice with the same conversation: each call built its
\* own manager over its own copy of the messages, and both write to the one
\* messages table
ConcurrentInit ==
    /\ conversation_id \in ConversationIds
    /\ messages = SharedConversation.messages
    /\ rows = SharedConversation.rows
    /\ out = <<>>
    /\ pc = "idle"
    /\ count = 0
    /\ full_thinking = <<>>
    /\ full_content = <<>>
    /\ tool_calls_this_turn = <<>>
    /\ toolIdx = 1
    /\ frames = 0
    /\ dbFailures = 0
    /\ exc = "none"
    /\ turns = <<>>
    /\ dispatched = <<>>
    /\ current_conversation = TRUE
    /\ response = None
    /\ loaded = None
    /\ plan = None
    /\ next_steps = <<>>
    /\ messages_for_llm = <<>>
    /\ initial_messages = <<>>
    /\ response_stream = <<>>
    /\ yielded = <<>>
    /\ other = Some(Local)
    /\ NoRegistry

\* the event loop runs the other request: the one that was running is
\* suspended at a yield or waiting for a frame
Switch ==
    /\ other # None
    /\ other' = Some(Local)
    /\ messages' = other[1].messages
    /\ out' = other[1].out
    /\ pc' = other[1].pc
    /\ count' = other[1].count
    /\ full_thinking' = other[1].full_thinking
    /\ full_content' = other[1].full_content
    /\ tool_calls_this_turn' = other[1].tool_calls_this_turn
    /\ toolIdx' = other[1].toolIdx
    /\ exc' = other[1].exc
    /\ turns' = other[1].turns
    /\ dispatched' = other[1].dispatched
    /\ messages_for_llm' = other[1].messages_for_llm
    /\ initial_messages' = other[1].initial_messages
    /\ UNCHANGED <<registry, conversation_id, rows, frames, dbFailures, side, adapter>>

ConcurrentNext ==
    \/ Switch
    \/ StartRequest
    \/ BeginTurn
    \/ StreamFrame
    \/ StreamDone
    \/ StreamFail
    \/ ExecuteTool

ConcurrentSpec == ConcurrentInit /\ [][ConcurrentNext]_vars

\* ------------------------------------------------------------- the tool registry
\* calls of tool functions in a run
MaxCalls == 2

RegistryNames == {"sample_tool", "another_tool"}

Categories == {"math", "general"}

\* ToolStatus
ToolStatus == {"active", "deprecated", "disabled", "experimental"}

\* Tool: the fields the registry reads or writes
Tool(name, category, status, call_count) ==
    [name |-> name, category |-> category, status |-> status,
     call_count |-> call_count]

\* dict[key] = value
DictSet(d, key, value) ==
    [k \in DOMAIN d \cup {key} |-> IF k = key THEN value ELSE d[k]]

\* the names a list holds
Listed(names) == { names[i] : i \in DOMAIN names }

\* register_tool, the update of the category index
index_tool(cats, tool) ==
    LET withCategory == IF tool.category \notin DOMAIN cats
                          THEN DictSet(cats, tool.category, <<>>)
                          ELSE cats
    IN  IF tool.name \notin Listed(withCategory[tool.category])
          THEN DictSet(withCategory, tool.category,
                       Append(withCategory[tool.category], tool.name))
          ELSE withCategory

RegistryInit ==
    /\ conversation_id \in ConversationIds
    /\ messages = <<>>
    /\ rows = <<>>
    /\ out = <<>>
    /\ pc = "registry"
    /\ count = 0
    /\ full_thinking = <<>>
    /\ full_content = <<>>
    /\ tool_calls_this_turn = <<>>
    /\ toolIdx = 1
    /\ frames = 0
    /\ dbFailures = 0
    /\ exc = "none"
    /\ turns = <<>>
    /\ dispatched = <<>>
    /\ current_conversation = TRUE
    /\ response = None
    /\ loaded = None
    /\ plan = None
    /\ next_steps = <<>>
    /\ messages_for_llm = <<>>
    /\ initial_messages = <<>>
    /\ response_stream = <<>>
    /\ yielded = <<>>
    /\ other = None
    /\ NoRegistry

\* what the registry leaves alone
registryFrame == <<other, llm, adapter, side, conversation_id, messages, rows, out,
                   pc, count, full_thinking, full_content, tool_calls_this_turn,
                   toolIdx, frames, dbFailures, turns, dispatched>>

\* ToolRegistry.register_tool with a new Tool
RegisterTool ==
    /\ pc = "registry"
    /\ \E name \in RegistryNames, category \in Categories, status \in ToolStatus :
         LET tool == Tool(name, category, status, 0)
         IN  /\ tools' = DictSet(tools, tool.name, tool)
             /\ tool_categories' = index_tool(tool_categories, tool)
             /\ last_call' = <<"register_tool", name>>
    /\ exc' = "none"
    /\ UNCHANGED <<registryFrame, fn_calls>>

\* the owner of a registered tool sets its status
SetToolStatus ==
    /\ pc = "registry"
    /\ \E name \in DOMAIN tools, status \in ToolStatus :
         /\ tools[name].status # status
         /\ tools' = [tools EXCEPT ![name].status = status]
         /\ last_call' = <<"status", name>>
    /\ exc' = "none"
    /\ UNCHANGED <<registryFrame, tool_categories, fn_calls>>

\* mutant: the tool counts the call before its status is looked at
RegistryExecuteToolCountsFirst ==
    /\ pc = "registry"
    /\ \E name \in RegistryNames, ok \in BOOLEAN :
         /\ last_call' = <<"execute_tool", name>>
         /\ IF name \notin DOMAIN tools
              THEN /\ exc' = "ValueError"
                   /\ UNCHANGED <<tools, fn_calls>>
              ELSE /\ fn_calls < MaxCalls
                   /\ tools' = [tools EXCEPT ![name].call_count = @ + 1]
                   /\ IF tools[name].status = "disabled"
                        THEN /\ exc' = "ValueError"
                             /\ UNCHANGED fn_calls
                        ELSE /\ fn_calls' = fn_calls + 1
                             /\ exc' = IF ok THEN "none" ELSE "Exception"
    /\ UNCHANGED <<registryFrame, tool_categories>>

\* ToolRegistry.execute_tool, with Tool.execute: the function returns (ok) or
\* raises
RegistryExecuteTool ==
    /\ pc = "registry"
    /\ \E name \in RegistryNames, ok \in BOOLEAN :
         /\ last_call' = <<"execute_tool", name>>
         /\ IF name \notin DOMAIN tools
              THEN /\ exc' = "ValueError"
                   /\ UNCHANGED <<tools, fn_calls>>
              ELSE IF tools[name].status = "disabled"
              THEN /\ exc' = "ValueError"
                   /\ UNCHANGED <<tools, fn_calls>>
              ELSE /\ fn_calls < MaxCalls
                   /\ tools' = [tools EXCEPT ![name].call_count = @ + 1]
                   /\ fn_calls' = fn_calls + 1
                   /\ exc' = IF ok THEN "none" ELSE "Exception"
    /\ UNCHANGED <<registryFrame, tool_categories>>

RegistryNext ==
    \/ RegisterTool
    \/ SetToolStatus
    \/ RegistryExecuteTool

RegistrySpec == RegistryInit /\ [][RegistryNext]_vars

\* ------------------------------------------------------------- typing
TypeOK ==
    /\ pc \in {"idle", "direct", "rejected", "turn", "streaming", "dispatching",
              "finalized", "errored", "closed"}
    /\ count \in 0..MaxTurns
    /\ frames \in 0..MaxFrames
    /\ Len(turns) = count

\* ------------------------------------------------------------- the stream
Terminal(e) == e.stage \in {"finalize_answer", "error"}
ToolEvent(e) == e.stage \in {"tool_result", "tool_error"}
TextEvent(e) == e.stage \in {"thinking", "content"}
Ended == pc \in {"finalized", "errored"}
\* the loop of a request has been started
Started ==
    pc \in {"turn", "streaming", "dispatching", "finalized", "errored", "closed"}
\* a step of the loop of the request
LoopStep == BeginTurn \/ StreamFrame \/ StreamDone \/ StreamFail \/ ExecuteTool
Stages(lines) == [i \in DOMAIN lines |-> lines[i].stage]
CountStage(lines, stage) == Len(SelectSeq(lines, LAMBDA e : e.stage = stage))
\* the payloads of the events of one stage, in order
Payloads(lines, stage) ==
    LET sel == SelectSeq(lines, LAMBDA e : e.stage = stage)
    IN  [i \in DOMAIN sel |-> sel[i].response]
\* the lines yielded during turn k: its text events, then what followed them
TurnEnd(k) == IF k < Len(turns) THEN turns[k + 1].start ELSE Len(out)
TextLines(k) == SubSeq(out, turns[k].start + 1, turns[k].mark)
LaterLines(k) == SubSeq(out, turns[k].mark + 1, TurnEnd(k))
LastTurn == turns[Len(turns)]

\* ------------------------------------------------------------- C1
\* C1 (as claimed): no line follows a finalize_answer or an error line, and
\* the stream of a request that ended holds exactly one terminal event, its
\* last line.
C1_TerminalLastAndUnique ==
    /\ \A i \in 1..(Len(out) - 1) : ~Terminal(out[i])
    /\ Ended => /\ out # <<>>
                /\ Terminal(out[Len(out)])
                /\ CountStage(out, "finalize_answer") + CountStage(out, "error") = 1

\* ------------------------------------------------------------- C2
\* C2: the first line is the metadata event with the conversation id, it is
\* there before the first model turn starts, and no later line is a metadata
\* event.
C2_MetadataFirstAndOnce ==
    /\ out # <<>> => out[1] = Metadata(conversation_id)
    /\ \A i \in 2..Len(out) : out[i].stage # "metadata"
    /\ turns # <<>> => /\ out # <<>>
                       /\ turns[1].start = 1
    /\ Started => CountStage(out, "metadata") = 1

\* a request of two turns that finalized
C2_Witness ==
    /\ pc = "finalized"
    /\ count = 2
    /\ CountStage(out, "metadata") = 1

\* ------------------------------------------------------------- C3
\* the dispatch of turn k's batch is over
DispatchDone(k) ==
    /\ turns[k].ended = "normal"
    /\ turns[k].message > 0
    /\ turns[k].batch # <<>>
    /\ (k < Len(turns) \/ pc = "turn")

\* C3 (as claimed): a turn that collected k tool calls is followed by exactly
\* k tool events, each a tool_result or a tool_error, the i-th one naming the
\* tool of the i-th call.  Stated for the batches whose calls all have a
\* function mapping, where the dispatch runs to the end of the batch.
C3_OneEventPerCall ==
    \A k \in DOMAIN turns :
        (DispatchDone(k) /\ \A i \in DOMAIN turns[k].batch : turns[k].batch[i].mapping) =>
            LET ev == LaterLines(k)
                batch == turns[k].batch
            IN  /\ Len(ev) = Len(batch)
                /\ \A i \in DOMAIN ev :
                       ToolEvent(ev[i]) /\ ev[i].tool = batch[i].name

RECURSIVE Handled(_)
\* the calls of a batch the dispatcher gets to: those before the first call
\* whose function entry is not a mapping
Handled(batch) ==
    IF batch = <<>> \/ ~Head(batch).mapping THEN <<>>
    ELSE <<Head(batch)>> \o Handled(Tail(batch))

\* the calls handled that carry a name
Named(batch) == SelectSeq(Handled(batch), LAMBDA tc : tc.name # "")

\* C3 (amended): the dispatcher yields exactly one tool_result or tool_error
\* for each call that has a non-empty name and is reached, in call order; a
\* call without a name yields nothing, and a call whose function entry is not
\* a mapping ends the dispatch with one error line and nothing for the calls
\* after it.
C3_OneEventPerNamedCall ==
    \A k \in DOMAIN turns :
        DispatchDone(k) =>
            LET batch == turns[k].batch
                named == Named(batch)
                ev == SelectSeq(LaterLines(k), ToolEvent)
            IN  /\ Len(ev) = Len(named)
                /\ \A i \in DOMAIN ev : ev[i].tool = named[i].name
                /\ LaterLines(k) =
                       ev \o (IF Len(Handled(batch)) < Len(batch)
                                THEN <<DispatcherError>> ELSE <<>>)

\* a batch with a nameless call and two named ones has been dispatched
C3_Witness ==
    \E k \in DOMAIN turns :
        /\ DispatchDone(k)
        /\ \E i \in DOMAIN turns[k].batch : turns[k].batch[i] = NoName
        /\ Stages(LaterLines(k)) = <<"tool_result", "tool_result">>

\* ------------------------------------------------------------- C4
\* C4 (as claimed): a turn whose stream ended normally with no tool call is
\* followed by finalize_answer and nothing else, the stream holds exactly one
\* finalize_answer, and no further turn is started.
C4_NoToolCallsFinalizes ==
    \A k \in DOMAIN turns :
        (turns[k].ended = "normal" /\ turns[k].batch = <<>>) =>
            /\ pc = "finalized"
            /\ k = Len(turns)
            /\ LaterLines(k) = <<FinalizeAnswer>>
            /\ CountStage(out, "finalize_answer") = 1

\* C4 (amended): the same, for a turn that produced some thinking or content.
C4_NoToolCallsWithTextFinalizes ==
    \A k \in DOMAIN turns :
        (turns[k].ended = "normal" /\ turns[k].batch = <<>>
           /\ TextLines(k) # <<>>) =>
            /\ pc = "finalized"
            /\ k = Len(turns)
            /\ LaterLines(k) = <<FinalizeAnswer>>
            /\ CountStage(out, "finalize_answer") = 1

\* the second turn produced thinking only, and no tool call
C4_Witness ==
    /\ Len(turns) = 2
    /\ turns[2].ended = "normal"
    /\ turns[2].batch = <<>>
    /\ Stages(TextLines(2)) = <<"thinking">>

Productive(k) == TextLines(k) # <<>> \/ turns[k].batch # <<>>

\* C6 (as claimed): the conversation holds one assistant message for each
\* model stream that ended normally (the request started with none), whether
\* the turn produced text, only tool calls, or both.
C6_OneAssistantPerTurn ==
    (\A k \in DOMAIN turns : turns[k].ended = "normal" => Productive(k)) =>
        Cardinality({i \in DOMAIN messages : messages[i].role = "assistant"})
          = Cardinality({k \in DOMAIN turns : turns[k].ended = "normal"})

\* ------------------------------------------------------------- C7
\* C7: the assistant message appended for a turn, and its row when written,
\* carry as content the concatenation of the payloads of the turn's content
\* lines and as thinking that of its thinking lines.
C7_PersistedTextIsStreamedText ==
    \A k \in DOMAIN turns :
        turns[k].message > 0 =>
            LET m == messages[turns[k].message]
                content == Join(Payloads(TextLines(k), "content"))
                thinking == Join(Payloads(TextLines(k), "thinking"))
            IN  /\ m.role = "assistant"
                /\ m.content = content
                /\ m.thinking = Some(thinking)
                /\ \A i \in DOMAIN rows :
                       rows[i].step = turns[k].message =>
                           /\ rows[i].content = content
                           /\ rows[i].thinking = Some(thinking)

\* a turn streamed the content lines "a" and "b" and a thinking line
C7_Witness ==
    \E k \in DOMAIN turns :
        /\ turns[k].message > 0
        /\ Payloads(TextLines(k), "content") = <<"a", "b">>
        /\ Payloads(TextLines(k), "thinking") = <<"t">>
        /\ \E i \in DOMAIN rows : rows[i].step = turns[k].message

\* ------------------------------------------------------------- C8
\* C8: a row's step is the position of its message in the conversation, for
\* every role; steps grow from row to row, and when no write failed the n-th
\* row has step n.
C8_StepIsPosition ==
    /\ \A i \in DOMAIN rows :
           /\ rows[i].step \in DOMAIN messages
           /\ rows[i].role = messages[rows[i].step].role
           /\ rows[i].content = messages[rows[i].step].content
           /\ i > 1 => rows[i].step = rows[i - 1].step + 1 \/ dbFailures > 0
           /\ i > 1 => rows[i].step > rows[i - 1].step
    /\ dbFailures = 0 =>
           /\ Len(rows) = Len(messages)
           /\ \A i \in DOMAIN rows : rows[i].step = i

\* user, assistant, tool and assistant rows with steps 1 to 4
C8_Witness ==
    /\ Len(rows) = 4
    /\ [i \in DOMAIN rows |-> rows[i].role] = <<"user", "assistant", "tool", "assistant">>
    /\ [i \in DOMAIN rows |-> rows[i].step] = <<1, 2, 3, 4>>

C10_ScenarioA ==
    ( /\ Ended
      /\ Len(turns) >= 1
      /\ turns[1].ended = "normal"
      /\ turns[1].batch = <<GetWeather>>
      /\ TextLines(1) = <<>>
      /\ Len(turns) >= 2 =>
             /\ turns[2].ended = "normal"
             /\ turns[2].batch = <<>>
             /\ Stages(TextLines(2)) = <<"content">> ) =>
        /\ Stages(out) = <<"metadata", "tool_result", "content", "finalize_answer">>
        /\ out[2].tool = "get_weather"

\* ------------------------------------------------------------- C11
\* turn k is over: its stream ended and its dispatch, if any, is finished
TurnOver(k) == k < Len(turns) \/ pc \in {"turn", "finalized", "errored"}

\* the calls of a batch that name a tool that is not registered
Unregistered(batch) ==
    SelectSeq(batch, LAMBDA tc : tc.mapping /\ tc.name \notin AvailableTools \cup {""})

\* C11 (as claimed), Scenario C: a turn whose stream ended normally with a call
\* of an unregistered tool is followed by one tool_error naming that tool, no
\* tool message of that name is in the conversation, and the loop goes on to
\* the next model turn.
C11_ScenarioC ==
    \A k \in DOMAIN turns :
        (turns[k].ended = "normal" /\ TurnOver(k)
           /\ Unregistered(turns[k].batch) # <<>>) =>
            LET unknown == Unregistered(turns[k].batch)
                errors == SelectSeq(LaterLines(k), LAMBDA e : e.stage = "tool_error")
            IN  /\ \A i \in DOMAIN unknown :
                       Len(SelectSeq(errors, LAMBDA e : e.tool = unknown[i].name)) = 1
                /\ \A i \in DOMAIN messages :
                       messages[i].role = "tool" =>
                           \A j \in DOMAIN unknown :
                               messages[i].tool_name # Some(unknown[j].name)
                /\ (k < Len(turns) \/ pc = "turn")

\* ------------------------------------------------------------- C12
\* the call names no registered tool, or its tool raises
Fails(tc) ==
    tc.mapping /\ tc.name # "" /\ (tc.name \notin AvailableTools \/ ToolRaises(tc))
\* the call names a registered tool that returns
Succeeds(tc) == tc.mapping /\ tc.name \in AvailableTools /\ ~ToolRaises(tc)

\* the messages appended after the assistant message of turn k and before
\* that of the next turn
DispatchMessages(k) ==
    SubSeq(messages, turns[k].message + 1,
           IF k < Len(turns) /\ turns[k + 1].message > 0
             THEN turns[k + 1].message - 1 ELSE Len(messages))

\* C12: after a call that failed and is not the last of its batch the
\* dispatcher handles the next call of the batch; and a batch of two calls of
\* which the first fails and the second succeeds yields tool_error for the
\* first, then tool_result for the second, and appends exactly one tool
\* message, that of the second call, with at most one tool row (exactly one
\* when no write failed).
C12_FailureDoesNotStopBatch ==
    /\ \A n \in DOMAIN dispatched :
           LET r == dispatched[n]
           IN  (Fails(r.call) /\ r.index < Len(turns[r.turn].batch)) =>
                   IF n < Len(dispatched)
                     THEN /\ dispatched[n + 1].turn = r.turn
                          /\ dispatched[n + 1].index = r.index + 1
                     ELSE /\ pc = "dispatching"
                          /\ count = r.turn
                          /\ toolIdx = r.index + 1
    /\ \A k \in DOMAIN turns :
           (DispatchDone(k) /\ Len(turns[k].batch) = 2
              /\ Fails(turns[k].batch[1]) /\ Succeeds(turns[k].batch[2])) =>
               LET ev == LaterLines(k)
                   added == DispatchMessages(k)
                   written == SelectSeq(rows, LAMBDA w :
                                  w.role = "tool" /\ w.step > turns[k].message
                                    /\ w.step <= turns[k].message + 1)
               IN  /\ Stages(ev) = <<"tool_error", "tool_result">>
                   /\ ev[1].tool = turns[k].batch[1].name
                   /\ ev[2].tool = turns[k].batch[2].name
                   /\ Len(added) = 1
                   /\ added[1].role = "tool"
                   /\ added[1].tool_name = Some(turns[k].batch[2].name)
                   /\ added[1].content = ev[2].result
                   /\ Len(written) <= 1
                   /\ dbFailures = 0 => Len(written) = 1

\* a batch of a call whose tool raises and a call that succeeds was dispatched
C12_Witness ==
    \E k \in DOMAIN turns :
        /\ DispatchDone(k)
        /\ turns[k].batch = <<GetWeatherBadArgs, GetConditions>>
        /\ Stages(LaterLines(k)) = <<"tool_error", "tool_result">>
        /\ Len(DispatchMessages(k)) = 1

\* ------------------------------------------------------------- C13
\* the records of the dispatch log of turn k
CallsOf(k) == SelectSeq(dispatched, LAMBDA r : r.turn = k)

RECURSIVE Flatten(_)
Flatten(seqs) == IF seqs = <<>> THEN <<>> ELSE Head(seqs) \o Flatten(Tail(seqs))

\* C13: the tool messages appended by the dispatch of a turn are those of the
\* calls whose tool was resolved and returned: one per such call, in call
\* order, named after the call's tool and carrying the result reported for it;
\* a call that was skipped, not resolved or whose tool raised appends none.
C13_ToolMessagesAreSuccessfulCalls ==
    /\ \A n \in DOMAIN dispatched :
           LET r == dispatched[n]
           IN  IF Succeeds(r.call)
                 THEN /\ Len(r.appended) = 1
                      /\ Stages(r.events) = <<"tool_result">>
                      /\ r.appended[1] =
                             ChatMessage("tool", r.events[1].result, None, None,
                                         Some(r.call.name))
                      /\ r.events[1].result \in ToolResults(r.call.name)
                 ELSE r.appended = <<>>
    /\ \A k \in DOMAIN turns :
           DispatchDone(k) =>
               LET calls == CallsOf(k)
                   ok == SelectSeq(Handled(turns[k].batch), Succeeds)
                   added == DispatchMessages(k)
               IN  /\ added = Flatten([n \in DOMAIN calls |-> calls[n].appended])
                   /\ Len(added) = Len(ok)
                   /\ \A i \in DOMAIN added :
                          /\ added[i].role = "tool"
                          /\ added[i].tool_name = Some(ok[i].name)

\* a dispatch of three calls, the middle one unresolved, appended the tool
\* messages of the first and the third
C13_Witness ==
    \E k \in DOMAIN turns :
        /\ DispatchDone(k)
        /\ turns[k].batch = <<GetWeather, UnknownTool, GetConditions>>
        /\ Len(DispatchMessages(k)) = 2
        /\ DispatchMessages(k)[1].tool_name = Some("get_weather")
        /\ DispatchMessages(k)[2].tool_name = Some("get_weather_conditions")

\* ------------------------------------------------------------- C14
\* C14: a call whose name is empty or missing yields no line, calls no tool,
\* appends no message and writes no row, and when it is not the last call of
\* its batch the dispatcher handles the next call.
C14_NamelessCallSkipped ==
    \A n \in DOMAIN dispatched :
        LET r == dispatched[n]
        IN  (r.call.mapping /\ r.call.name = "") =>
                /\ r.events = <<>>
                /\ ~r.invoked
                /\ r.appended = <<>>
                /\ r.written = 0
                /\ r.index < Len(turns[r.turn].batch) =>
                       IF n < Len(dispatched)
                         THEN /\ dispatched[n + 1].turn = r.turn
                              /\ dispatched[n + 1].index = r.index + 1
                         ELSE /\ pc = "dispatching"
                              /\ count = r.turn
                              /\ toolIdx = r.index + 1

\* a nameless call was skipped and the call after it returned its result
C14_Witness ==
    \E n \in 1..(Len(dispatched) - 1) :
        /\ dispatched[n].call = NoName
        /\ dispatched[n].events = <<>>
        /\ dispatched[n + 1].turn = dispatched[n].turn
        /\ Stages(dispatched[n + 1].events) = <<"tool_result">>

\* ------------------------------------------------------------- C15
\* C15 (as claimed): as long as every turn's stream ended normally with at
\* least one tool call, the loop is in no terminal state: after the n-th such
\* turn it dispatches and then stands at the top of `while True`, about to
\* start turn n + 1.
C15_NoTurnBound ==
    (turns # <<>> /\ pc # "streaming"
       /\ \A k \in DOMAIN turns :
              turns[k].ended = "normal" /\ turns[k].batch # <<>>) =>
        /\ ~Ended
        /\ pc \in {"dispatching", "turn"}
        /\ count = Len(turns)

\* ------------------------------------------------------------- C16
\* C16 (as claimed): invoke on a conversation without messages answers with
\* status 400 and a detail saying 'Query contains no messages', produces no
\* event stream and starts no model turn.
C16_NoMessagesRejected ==
    pc = "rejected" =>
        /\ response # None
        /\ response[1].status_code = 400
        /\ response[1].detail = "Query contains no messages"
        /\ response[1].body = <<>>
        /\ out = <<>>
        /\ turns = <<>>

\* ------------------------------------------------------------- C17
\* C17: a call of add_user_message, add_assistant_message or add_tool_message
\* on a manager without a conversation (after close_conversation) raises
\* RuntimeError, appends no message and writes no row.
C17_NoActiveConversation ==
    [][(~current_conversation
          /\ (AddUserMessage \/ AddAssistantMessage \/ AddToolMessage)) =>
           /\ exc' = "RuntimeError"
           /\ messages' = messages
           /\ rows' = rows]_vars

\* a call raised RuntimeError on a closed manager whose conversation had a
\* message and a row
C17_Witness ==
    /\ ~current_conversation
    /\ exc = "RuntimeError"
    /\ messages # <<>>
    /\ rows # <<>>

CompletedIds(p) ==
    { p.steps[i].id : i \in { j \in DOMAIN p.steps : p.steps[j].status = "completed" } }

C19_LoadRoundTrip ==
    (loaded # None /\ dbFailures = 0) =>
        LET got == loaded[1].messages
            put == loaded[1].appended
        IN  /\ Len(got) = Len(put)
            /\ \A i \in DOMAIN got :
                   /\ got[i].role = put[i].role
                   /\ got[i].content = put[i].content
                   /\ got[i].thinking = put[i].thinking
                   /\ got[i].tool_calls = put[i].tool_calls

\* C19 (amended): load_existing builds one message for each row that was
\* written, in the order of the appends (all the messages when no write
\* failed); each has the role and the content of the message appended at its
\* step, the same tool_calls except that an empty list comes back as None,
\* and the same thinking when it is an assistant message, while a user or a
\* tool message, appended without thinking, comes back with thinking "".
C19_LoadReturnsWrittenMessages ==
    loaded # None =>
        LET got == loaded[1].messages
            put == loaded[1].appended
            at == loaded[1].steps
        IN  /\ Len(got) <= Len(put)
            /\ Len(put) - Len(got) <= dbFailures
            /\ \A i \in DOMAIN got :
                   /\ at[i] \in DOMAIN put
                   /\ i > 1 => at[i - 1] < at[i]
                   /\ got[i].role = put[at[i]].role
                   /\ got[i].content = put[at[i]].content
                   /\ got[i].tool_calls =
                          IF FalsyList(put[at[i]].tool_calls) THEN None
                          ELSE put[at[i]].tool_calls
                   /\ got[i].thinking =
                          IF put[at[i]].role = "assistant"
                            THEN put[at[i]].thinking ELSE Some("")
                   /\ put[at[i]].role # "assistant" => put[at[i]].thinking = None

\* a conversation of an assistant message with a tool call and a user
\* message, both written, was loaded
C19_Witness ==
    /\ loaded # None
    /\ Len(loaded[1].messages) = 2
    /\ loaded[1].messages[1].role = "assistant"
    /\ loaded[1].messages[1].tool_calls = Some(<<GetWeather>>)
    /\ loaded[1].messages[2].role = "user"
    /\ loaded[1].messages[2].thinking = Some("")

\* ------------------------------------------------------------- C20
\* C20: when the dispatcher calls a tool or yields a tool_result or a
\* tool_error for a call of a turn, the assistant message of that turn is
\* already in the conversation (and its row written, unless that write
\* failed), and the line follows the lines the turn had streamed.
C20_AssistantBeforeDispatch ==
    /\ \A n \in DOMAIN dispatched :
           LET r == dispatched[n]
               at == turns[r.turn].message
           IN  (r.invoked \/ r.events # <<>>) =>
                   /\ at > 0
                   /\ at <= r.history
                   /\ messages[at].role = "assistant"
                   /\ turns[r.turn].mark <= r.lines
                   /\ dbFailures = 0 =>
                          \E i \in DOMAIN rows :
                              rows[i].step = at /\ rows[i].role = "assistant"
    /\ \A k \in DOMAIN turns :
           (\E i \in DOMAIN LaterLines(k) : ToolEvent(LaterLines(k)[i])) =>
               /\ turns[k].message > 0
               /\ \A i \in DOMAIN DispatchMessages(k) :
                      DispatchMessages(k)[i].role = "tool"

\* a tool was called in the second turn, after the assistant messages of both
\* turns had been appended
C20_Witness ==
    \E n \in DOMAIN dispatched :
        /\ dispatched[n].turn = 2
        /\ dispatched[n].invoked
        /\ Stages(dispatched[n].events) = <<"tool_result">>
        /\ turns[2].message = dispatched[n].history

\* ------------------------------------------------------------- C21
\* the lines yielded since turn k began, while its stream is still open
OpenLines(k) == SubSeq(out, turns[k].start + 1, Len(out))

\* C21: the lines of a turn are its thinking and content lines followed by
\* the lines of its dispatch, and the next turn's lines come after both: the
\* lines up to the end of the turn's stream are thinking or content lines,
\* no line between the end of the stream and the start of the next turn is
\* one, every tool event lies in such a range, and the lines of each call
\* lie between the end of its turn's stream and the start of the next turn.
C21_TurnsDoNotInterleave ==
    /\ \A k \in DOMAIN turns :
           IF turns[k].ended = "open"
             THEN \A i \in DOMAIN OpenLines(k) : TextEvent(OpenLines(k)[i])
             ELSE /\ \A i \in DOMAIN TextLines(k) : TextEvent(TextLines(k)[i])
                  /\ \A i \in DOMAIN LaterLines(k) : ~TextEvent(LaterLines(k)[i])
    /\ \A k \in 1..(Len(turns) - 1) :
           /\ turns[k].start <= turns[k].mark
           /\ turns[k].mark <= turns[k + 1].start
    /\ \A i \in DOMAIN out :
           /\ ToolEvent(out[i]) =>
                  \E k \in DOMAIN turns :
                      /\ turns[k].ended = "normal"
                      /\ turns[k].mark < i
                      /\ i <= TurnEnd(k)
           /\ TextEvent(out[i]) =>
                  \E k \in DOMAIN turns :
                      /\ turns[k].start < i
                      /\ turns[k].ended # "open" => i <= turns[k].mark
                      /\ k < Len(turns) => i <= turns[k + 1].start
    /\ \A n \in DOMAIN dispatched :
           LET r == dispatched[n]
           IN  /\ turns[r.turn].mark <= r.lines
               /\ r.lines + Len(r.events) <= TurnEnd(r.turn)
               /\ SubSeq(out, r.lines + 1, r.lines + Len(r.events)) = r.events

\* a first turn with text and then tool events, and a second turn with text
C21_Witness ==
    /\ Len(turns) = 2
    /\ turns[2].ended = "normal"
    /\ TextLines(1) # <<>>
    /\ \E i \in DOMAIN LaterLines(1) : ToolEvent(LaterLines(1)[i])
    /\ TextLines(2) # <<>>

\* ------------------------------------------------------------- C22
\* the messages the dispatch of turn k appended, call by call
DispatchAppended(k) ==
    Flatten([n \in DOMAIN CallsOf(k) |-> CallsOf(k)[n].appended])

\* the conversation a turn starts with, as built from the logs: the one the
\* loop was started with, then for each earlier turn its assistant message
\* and what its dispatch appended
ConversationAtTurn(k) ==
    initial_messages
      \o Flatten([j \in 1..(k - 1) |->
                     <<messages[turns[j].message]>> \o DispatchAppended(j)])

\* C22: the list given to the model in a turn holds, as dictionaries, the
\* messages of the conversation as it is when the turn starts, and that is
\* the conversation the loop was started with followed, for each earlier turn
\* in order, by the turn's assistant message and the tool messages of its
\* calls that returned.
C22_ModelGetsWholeConversation ==
    turns # <<>> =>
        /\ \A j \in 1..(Len(turns) - 1) : turns[j].message > 0
        /\ LET conversation == ConversationAtTurn(Len(turns))
           IN  /\ Len(messages_for_llm) = Len(conversation)
               /\ \A i \in DOMAIN conversation :
                      /\ DOMAIN messages_for_llm[i] = DOMAIN to_dict(conversation[i])
                      /\ messages_for_llm[i] = to_dict(conversation[i])
               /\ pc = "streaming" => conversation = messages
        /\ \A j \in 1..(Len(turns) - 1) :
               /\ messages[turns[j].message].role = "assistant"
               /\ Len(DispatchAppended(j))
                     = Len(SelectSeq(CallsOf(j), LAMBDA r : Succeeds(r.call)))
               /\ \A i \in DOMAIN DispatchAppended(j) :
                      DispatchAppended(j)[i].role = "tool"

\* the second turn was given the user message, the assistant message of the
\* first turn and the tool message of its call
C22_Witness ==
    /\ Len(turns) = 2
    /\ [i \in DOMAIN messages_for_llm |-> messages_for_llm[i].role]
         = <<"user", "assistant", "tool">>

\* ------------------------------------------------------------- C23
\* C23 (as claimed): the assistant message appended for a turn that collected
\* a non-empty batch carries that batch as its tool_calls, in the order the
\* calls were collected, and so does its row.
C23_AssistantCarriesBatch ==
    \A k \in DOMAIN turns :
        (turns[k].message > 0 /\ turns[k].batch # <<>>) =>
            /\ messages[turns[k].message].tool_calls = Some(turns[k].batch)
            /\ \A i \in DOMAIN rows :
                   rows[i].step = turns[k].message =>
                       rows[i].tool_calls = JsonDumps(turns[k].batch)

\* ------------------------------------------------------------- C24
\* C24 (as claimed): after a failure of the model stream the error line the
\* caller gets is the error event the adapter yielded, and the stream holds
\* no error line built by the loop.
C24_AdapterErrorReachesCaller ==
    (pc = "errored" /\ exc = "TransportError") =>
        /\ out[Len(out)] = AdapterError
        /\ \A i \in DOMAIN out : out[i] # LoopError

\* ------------------------------------------------------------- C25
\* the thinking and content events of a frame: none for the terminal frame,
\* else one for each of the two fields that is not empty, thinking first
TextOf(event) ==
    IF event.done THEN <<>>
    ELSE SelectSeq(<<Thinking(event.message.thinking),
                     Content(event.message.content)>>,
                   LAMBDA c : c.response # "")

\* one fragment for each tool call of a frame
FragmentsOf(event) ==
    [i \in DOMAIN event.message.tool_calls |->
        ToolCallChunk(event.message.tool_calls[i])]

\* what the adapter yielded, without the error event of a failure
YieldedChunks == SelectSeq(yielded, LAMBDA c : c.stage # "error")

\* C25: what the adapter yields is, frame by frame, a thinking event when the
\* frame is not terminal and has thinking, then a content event when it is not
\* terminal and has content, then one fragment per tool call of the frame,
\* terminal or not; the text of the terminal frame is not yielded.
C25_ChunksOfFrames ==
    /\ YieldedChunks =
           Flatten([i \in DOMAIN response_stream |->
                       TextOf(response_stream[i]) \o FragmentsOf(response_stream[i])])
    /\ \A i \in DOMAIN response_stream :
           response_stream[i].done =>
               /\ i = Len(response_stream)
               /\ \A n \in 1..Len(FragmentsOf(response_stream[i])) :
                      YieldedChunks[Len(YieldedChunks) - n + 1].stage = "tool_call_chunk"
    /\ CountStage(yielded, "thinking")
         = Cardinality({i \in DOMAIN response_stream :
                          ~response_stream[i].done
                            /\ response_stream[i].message.thinking # ""})
    /\ CountStage(yielded, "content")
         = Cardinality({i \in DOMAIN response_stream :
                          ~response_stream[i].done
                            /\ response_stream[i].message.content # ""})

\* a frame with thinking, content and a tool call was followed by a terminal
\* frame that carried text
C25_Witness ==
    /\ pc = "adapter_done"
    /\ Len(response_stream) = 2
    /\ response_stream[2].message.content # ""
    /\ Stages(yielded) = <<"thinking", "content", "tool_call_chunk">>

\* ------------------------------------------------------------- C26
\* C26: when the backend call or the iteration raises, the adapter has
\* yielded what it had yielded for the frames delivered and then exactly one
\* error event, its last chunk, the exception leaves it and it does nothing
\* further; an adapter that did not fail has yielded no error event.
C26_AdapterFailure ==
    /\ pc = "adapter_failed" =>
           /\ exc = "TransportError"
           /\ yielded # <<>>
           /\ yielded = YieldedChunks \o <<AdapterError>>
           /\ CountStage(yielded, "error") = 1
           /\ ~ENABLED AdapterNext
    /\ pc \in {"adapter", "adapter_done"} =>
           /\ exc = "none"
           /\ CountStage(yielded, "error") = 0

\* the iteration raised after a frame whose chunks had been yielded
C26_Witness ==
    /\ pc = "adapter_failed"
    /\ response_stream # <<>>
    /\ Stages(yielded) = <<"thinking", "content", "tool_call_chunk", "error">>

\* ------------------------------------------------------------- C27
\* the stages of the lines of the stream
LineStages ==
    {"metadata", "thinking", "content", "tool_result", "tool_error",
     "finalize_answer", "error"}

\* C27: tool-call fragments are buffered in the batch of the turn and not
\* forwarded: no line has the stage tool_call_chunk, every line has one of
\* the seven stages of the stream, and while a stream is read each call
\* collected so far has left no line behind.
C27_FragmentsNotForwarded ==
    /\ \A i \in DOMAIN out :
           /\ out[i].stage # "tool_call_chunk"
           /\ out[i].stage \in LineStages
    /\ pc = "streaming" =>
           \A i \in DOMAIN OpenLines(Len(turns)) :
               TextEvent(OpenLines(Len(turns))[i])

\* two fragments are buffered and the stream holds the metadata line only
C27_Witness ==
    /\ pc = "streaming"
    /\ Len(tool_calls_this_turn) = 2
    /\ Stages(out) = <<"metadata">>

\* ------------------------------------------------------------- C28
\* C28: every step leaves the messages held before it in place: the
\* conversation after the step starts with the conversation before it, so
\* nothing is removed, reordered or rewritten by a turn, a dispatch or an
\* error path.
C28_AppendOnly ==
    [][/\ Len(messages') >= Len(messages)
       /\ SubSeq(messages', 1, Len(messages)) = messages]_vars

\* a request that appended an assistant and a tool message ended in an error
C28_Witness ==
    /\ pc = "errored"
    /\ count = 2
    /\ [i \in DOMAIN messages |-> messages[i].role] = <<"user", "assistant", "tool">>
    /\ initial_messages = SubSeq(messages, 1, 1)

\* ------------------------------------------------------------- C29
\* the positions of the assistant messages, and of their rows
AssistantMessages == {i \in DOMAIN messages : messages[i].role = "assistant"}
AssistantRows == {i \in DOMAIN rows : rows[i].role = "assistant"}

\* C29: after a turn whose stream failed the conversation is the one the
\* turn started with: no assistant message was appended for the turn, so the
\* assistant messages are those of the earlier turns, no row was written
\* beyond the messages of the earlier turns, and the text that had been
\* forwarded for the turn is in the stream only.
C29_FailedTurnLeavesConversation ==
    (turns # <<>> /\ LastTurn.ended = "failed") =>
        /\ LastTurn.message = 0
        /\ messages = ConversationAtTurn(Len(turns))
        /\ messages_for_llm = [i \in DOMAIN messages |-> to_dict(messages[i])]
        /\ Cardinality(AssistantMessages) = Len(turns) - 1
        /\ \A k \in 1..(Len(turns) - 1) : turns[k].message \in AssistantMessages
        /\ Cardinality(AssistantRows) <= Len(turns) - 1
        /\ \A i \in DOMAIN rows : rows[i].step <= Len(messages_for_llm)

\* the first turn failed after a thinking and a content line had been
\* forwarded, and the conversation holds the user message only
C29_Witness ==
    /\ count = 1
    /\ LastTurn.ended = "failed"
    /\ Stages(TextLines(1)) = <<"thinking", "content">>
    /\ Len(messages) = 1

\* ------------------------------------------------------------- C30
\* the tool messages among msgs, and the tool_result lines of the stream
ToolMessages(msgs) == SelectSeq(msgs, LAMBDA m : m.role = "tool")
ToolResultLines == SelectSeq(out, LAMBDA e : e.stage = "tool_result")

\* C30: the tool message of a call is in the conversation when its
\* tool_result line is in the stream: the stream never holds more tool_result
\* lines than the request has appended tool messages, the n-th tool_result
\* line reports the content of the n-th of those messages under its tool
\* name, and a call that yielded a tool_result appended its tool message.
C30_ResultAfterToolMessage ==
    LET added == SubSeq(messages, Len(initial_messages) + 1, Len(messages))
        stored == ToolMessages(IF Started THEN added ELSE <<>>)
    IN  /\ Len(ToolResultLines) <= Len(stored)
        /\ \A n \in DOMAIN ToolResultLines :
               /\ stored[n].content = ToolResultLines[n].result
               /\ stored[n].tool_name = Some(ToolResultLines[n].tool)
        /\ \A n \in DOMAIN dispatched :
               LET r == dispatched[n]
               IN  (\E i \in DOMAIN r.events : r.events[i].stage = "tool_result") =>
                       /\ Len(r.appended) = 1
                       /\ r.appended[1].role = "tool"
                       /\ messages[r.history + 1] = r.appended[1]

\* two tool_result lines are in the stream and two tool messages in the
\* conversation, one of them without its row
C30_Witness ==
    /\ Len(ToolResultLines) = 2
    /\ Len(ToolMessages(messages)) = 2
    /\ Len(SelectSeq(rows, LAMBDA w : w.role = "tool")) = 1

\* ------------------------------------------------------------- C31
\* C31: when the stream holds finalize_answer, the assistant message of the
\* turn that ended the request is the last message of the conversation: it
\* was appended for the last turn, nothing was appended after it, and it
\* carries the text streamed in that turn.
C31_FinalizeAfterAssistantMessage ==
    CountStage(out, "finalize_answer") > 0 =>
        /\ pc = "finalized"
        /\ out[Len(out)] = FinalizeAnswer
        /\ LastTurn.message = Len(messages)
        /\ messages[Len(messages)].role = "assistant"
        /\ messages[Len(messages)].content
             = Join(Payloads(TextLines(Len(turns)), "content"))
        /\ messages[Len(messages)].thinking
             = Some(Join(Payloads(TextLines(Len(turns)), "thinking")))

\* a request finalized in its first turn while the row of the assistant
\* message could not be written
C31_Witness ==
    /\ pc = "finalized"
    /\ count = 1
    /\ [i \in DOMAIN messages |-> messages[i].role] = <<"user", "assistant">>
    /\ [i \in DOMAIN rows |-> rows[i].role] = <<"user">>

C33_MemoryAndStoreAgree ==
    /\ Len(rows) = Len(messages)
    /\ \A i \in DOMAIN messages :
           \E n \in DOMAIN rows :
               /\ rows[n].step = i
               /\ rows[n].role = messages[i].role
               /\ rows[n].content = messages[i].content
               /\ messages[i].role = "tool" => rows[n].tool_name = messages[i].tool_name

C35_StartedStepsHaveDependenciesMet ==
    pc = "plan_pass" =>
        \A k \in DOMAIN next_steps :
            LET step == plan[1].steps[next_steps[k]]
            IN  /\ step.status = "pending"
                /\ \A d \in step.dependencies :
                       \E j \in DOMAIN plan[1].steps :
                           /\ plan[1].steps[j].id = d
                           /\ plan[1].steps[j].status = "completed"

\* the second step, which depends on the first, is about to start after the
\* first completed
C35_Witness ==
    /\ pc = "plan_pass"
    /\ next_steps = <<2>>
    /\ plan[1].steps[2].dependencies = {1}
    /\ plan[1].steps[1].status = "completed"

\* ------------------------------------------------------------- C36
\* C36: execute_plan comes to its end: it returns the plan, or raises for
\* want of a plan.
C36_ExecutePlanTerminates == <>(pc \in {"plan_returned", "plan_raised"})

\* execute_plan returned with auto retry on a plan of two steps that depend
\* on each other, the first of which had failed with retries left or was
\* pending
C36_Witness ==
    /\ pc = "plan_returned"
    /\ plan[1].auto_retry_failed_steps
    /\ Len(plan[1].steps) = 2
    /\ plan[1].steps[1].dependencies = {2}
    /\ plan[1].steps[2].dependencies = {1}
    /\ plan[1].steps[1].status = "pending"
    /\ plan[1].steps[1].retry_count < max_retries

\* ------------------------------------------------------------- C37
\* C37: execute_tool on a name that is not registered or on a disabled tool
\* raises ValueError, does not call the tool's function, and leaves the tools
\* (their call_count too) and the category index as they were.
C37_RefusedCallChangesNothing ==
    [][(/\ last_call' # << >>
        /\ last_call'[1] = "execute_tool"
        /\ \/ last_call'[2] \notin DOMAIN tools
           \/ tools[last_call'[2]].status = "disabled")
       => /\ exc' = "ValueError"
          /\ fn_calls' = fn_calls
          /\ tools' = tools
          /\ tool_categories' = tool_categories]_vars

\* a tool that was called once and then disabled has refused a call
C37_Witness ==
    /\ last_call = <<"execute_tool", "sample_tool">>
    /\ exc = "ValueError"
    /\ "sample_tool" \in DOMAIN tools
    /\ tools["sample_tool"].status = "disabled"
    /\ tools["sample_tool"].call_count = 1
    /\ fn_calls = 1

\* ------------------------------------------------------------- C38
\* C38 (as claimed): a name is listed under a category exactly when the tool
\* registered under that name has that category, and no name is listed twice.
C38_CategoryIndexAgrees ==
    /\ \A c \in Categories, n \in RegistryNames :
           (c \in DOMAIN tool_categories /\ n \in Listed(tool_categories[c]))
             <=> (n \in DOMAIN tools /\ tools[n].category = c)
    /\ \A c, d \in DOMAIN tool_categories :
           \A i \in DOMAIN tool_categories[c], j \in DOMAIN tool_categories[d] :
               tool_categories[c][i] = tool_categories[d][j] => (c = d /\ i = j)

====
